---- MODULE Spec2Model ----
(***************************************************************************)
(* Model of the background relay of the browser extension                  *)
(* (src/extension/src/background/index.ts).                                *)
(*                                                                         *)
(* Every runtime port that connects gets its own websocket-ts Websocket    *)
(* (setupProviderConnection); ports named "devtools" are additionally      *)
(* kept in the module-level list `ports` and receive a timestamped copy    *)
(* of every relayed message (notifyDevtools).                              *)
(*                                                                         *)
(* JavaScript runs every listener to completion, so each action below is   *)
(* one whole listener invocation.  The Websocket object is the one built   *)
(* at index.ts:65-79 with an ArrayQueue buffer and ConstantBackoff(1000):  *)
(* its constructor opens the underlying socket, send() transmits when the  *)
(* socket is OPEN and buffers otherwise, an open event flushes the buffer, *)
(* a close event schedules a reconnect after backoff.next().               *)
(***************************************************************************)
EXTENDS Integers, Sequences, FiniteSets, TLC

\* ---------------------------------------------------------------- bounds
MaxSend  == 1      \* page -> background messages, over all ports
MaxRecv  == 1      \* upstream -> background messages, over all sockets
MaxDrops == 1      \* close events of underlying sockets, over all sockets
MaxTime  == 1      \* ticks of the wall clock read by Date.now()
RelayMaxSend  == 2 \* the same three, for the runs that follow one session alone
RelayMaxRecv  == 1
RelayMaxDrops == 2
ReplyMaxSend  == 1 \* and for the runs that follow the answers of one upstream
ReplyMaxRecv  == 2
ReplyMaxDrops == 1
SessionsMaxEvents == 2 \* all three kinds together, for the runs with two sessions
ListMaxEvents     == 1 \* and for the runs that follow the list of devtools ports

\* ------------------------------------------------------------- constants
BackoffMs == 1000  \* new ConstantBackoff(1000)

Tabs  == {"tab1", "tab2"}       \* ports opened by content scripts
Devs  == {"dev1", "dev2"}       \* ports opened by devtools pages
Ports == Tabs \cup Devs

\* port.name as the background page sees it
PortName(p) == IF p \in Devs THEN "devtools" ELSE "provider"

\* the k-th value the pages post: JSON-RPC requests carry distinct ids
Request(k) == [id |-> k, method |-> "eth_blockNumber"]

\* the k-th value an upstream server answers with
Response(k) == [id |-> k, result |-> "0x10"]

None == "none"

VARIABLES
  settings,   \* module variable `settings` (its endpoint)
  listening,  \* init() has passed its await and registered the onConnect listeners
  status,     \* per port: "absent" | "new" | "connected" | "disconnected"
  ports,      \* module constant `ports`: the list of devtools ports
  ws,         \* per port: the Websocket built by setupProviderConnection, or NoWs
  sent,       \* per port: the values the port's onMessage listener was called with
  wire,       \* per port: the texts handed to an OPEN underlying socket, in order
  count,      \* messages posted by pages, message events and close events so far
  limit,      \* how many of each, and of all together, the environment produces
  inbox,      \* per port: the values successfully posted with port.postMessage
  now,        \* the clock Date.now() reads
  bc,         \* the last notifyDevtools call: what it stamped, iterated and delivered
  thrown,     \* devtools ports whose own postMessage has thrown
  err,        \* how the last listener run ended: None, or the call that threw
  flushed,    \* per port: how many buffered texts open events have sent
  joinedAt,   \* per port: the number of notifyDevtools calls made before it connected
  sender,     \* per port: port.sender as the runtime supplies it (never changes)
  upIn,       \* per port: the texts of the message events of its socket, in order
  lastFlush   \* per port: the texts the socket's last open event sent

vars == <<settings, listening, status, ports, ws, sent, wire, count, limit, inbox,
          now, bc, thrown, err, flushed, joinedAt, sender, upIn, lastFlush>>

\* ---------------------------------------------------------------- helpers
Range(s) == {s[i] : i \in 1..Len(s)}

\* Array.prototype.indexOf: first index holding x, 0 when absent (JS: -1)
IndexOf(s, x) ==
  IF \E i \in 1..Len(s) : s[i] = x
  THEN CHOOSE i \in 1..Len(s) : s[i] = x /\ \A j \in 1..(i - 1) : s[j] # x
  ELSE 0

\* Array.prototype.splice(i, 1)
Splice(s, i) == SubSeq(s, 1, i - 1) \o SubSeq(s, i + 1, Len(s))

\* ------------------------------------------------------------------- JSON
\* JSON.stringify of a value: the text that carries it
Stringify(v) == [json |-> v]

\* a text no JSON.parse accepts
Malformed == [garbage |-> 1]

\* a parser that accepts any text
ParseableLenient(t) == TRUE

Parseable(t) == "json" \in DOMAIN t

\* JSON.parse of a parseable text (it throws on any other; callers test first)
Parse(t) == IF "json" \in DOMAIN t THEN t.json ELSE t

\* what the k-th message event of the upstream sockets can carry
UpTexts(k) == {Stringify(Response(k)), Malformed}

\* ---------------------------------------------------------------- strings
\* A string is the sequence of its characters; a property that may be
\* undefined carries a flag.
Undefined == [def |-> FALSE, str |-> <<>>]
Str(s) == [def |-> TRUE, str |-> s]

UndefinedId == [def |-> FALSE, num |-> 0]
Id(n) == [def |-> TRUE, num |-> n]

Digits == <<"0", "1", "2", "3", "4", "5", "6", "7", "8", "9">>

\* Number.prototype.toString(10) of a tab id
RECURSIVE ToString10(_)
ToString10(n) ==
  IF n < 10 THEN <<Digits[n + 1]>>
  ELSE ToString10(n \div 10) \o <<Digits[(n % 10) + 1]>>

\* the characters encodeURIComponent leaves alone (those the runs use)
Unreserved ==
  {"a", "b", "c", "d", "e", "f", "g", "h", "i", "l", "m", "n", "o", "p", "r", "s",
   "t", "u", "v", "w", "x", "I", "-", "_", ".", "!", "~", "*", "'", "(", ")"}
    \cup Range(Digits)

\* the UTF-8 percent escapes of the other characters the runs use
Escape ==
  [c \in {":", "/", "?", "#", "&", "=", " ", "%"} |->
     CASE c = ":" -> <<"%", "3", "A">>
       [] c = "/" -> <<"%", "2", "F">>
       [] c = "?" -> <<"%", "3", "F">>
       [] c = "#" -> <<"%", "2", "3">>
       [] c = "&" -> <<"%", "2", "6">>
       [] c = "=" -> <<"%", "3", "D">>
       [] c = " " -> <<"%", "2", "0">>
       [] c = "%" -> <<"%", "2", "5">>]

\* an encoder that lets the separators through
EncodeCharPlain(c) == <<c>>

EncodeChar(c) == IF c \in Unreserved THEN <<c>> ELSE Escape[c]

\* encodeURIComponent(s)
RECURSIVE EncodeURIComponent(_)
EncodeURIComponent(s) ==
  IF s = <<>> THEN <<>> ELSE EncodeChar(Head(s)) \o EncodeURIComponent(Tail(s))

\* Array.prototype.join(sep) of an array of strings
RECURSIVE Join(_, _)
Join(ss, sep) ==
  IF ss = <<>> THEN <<>>
  ELSE IF Len(ss) = 1 THEN ss[1]
  ELSE ss[1] \o sep \o Join(Tail(ss), sep)

\* ------------------------------------------------- websocket-ts Websocket
\* no Websocket has been built for the port yet
NoWs ==
  [state |-> "none", url |-> <<>>, buffer |-> <<>>, retries |-> 0, delay |-> 0,
   opened |-> FALSE, attempts |-> 0, drops |-> 0]

\* new WebsocketBuilder(url).withBuffer(new ArrayQueue())
\*   .withBackoff(new ConstantBackoff(1000)).onMessage(..).build():
\* the constructor calls tryConnect(), so the first attempt starts here.
WsBuild(url) ==
  [state    |-> "connecting",  \* underlying socket: connecting | open | retrying
   url      |-> url,
   buffer   |-> <<>>,          \* ArrayQueue: add at the tail, read from the head
   retries  |-> 0,             \* ConstantBackoff._retries
   delay    |-> 0,             \* delay of the last scheduled retry timer
   opened   |-> FALSE,         \* a connection was open before (_lastConnection)
   attempts |-> 1,             \* calls of tryConnect()
   drops    |-> 0]             \* close events

\* a backoff that doubles with every retry, as an exponential policy would
BackoffNextDoubling(retries) == BackoffMs * (2 ^ retries)

\* ConstantBackoff.next(): the same delay after every failure
BackoffNext(retries) == BackoffMs

\* Websocket.send(text): transmit when OPEN, otherwise add to the buffer.
\* Result: the socket and the texts put on the wire by this call.
WsSend(w, text) ==
  IF w.state = "open"
  THEN [w |-> w, tx |-> <<text>>]
  ELSE [w |-> [w EXCEPT !.buffer = Append(@, text)], tx |-> <<>>]

\* an open event that sends the buffered data newest first
WsOnOpenNewestFirst(w) ==
  [w  |-> [w EXCEPT !.state = "open",
                    !.retries = IF w.opened THEN 0 ELSE @,
                    !.opened = TRUE,
                    !.buffer = <<>>],
   tx |-> [i \in 1..Len(w.buffer) |-> w.buffer[Len(w.buffer) + 1 - i]]]

\* open event: reset the backoff on a reconnect, then send the buffered data
\* (buffer.read() until empty, head first).
WsOnOpen(w) ==
  [w  |-> [w EXCEPT !.state = "open",
                    !.retries = IF w.opened THEN 0 ELSE @,
                    !.opened = TRUE,
                    !.buffer = <<>>],
   tx |-> w.buffer]

\* a close event that also empties the buffer
WsOnCloseForgetful(w) ==
  [w EXCEPT !.state = "retrying",
            !.drops = @ + 1,
            !.delay = BackoffNext(w.retries),
            !.retries = @ + 1,
            !.buffer = <<>>]

\* close event: schedule a retry after backoff.next(); no maxRetries is set
WsOnClose(w) ==
  [w EXCEPT !.state = "retrying",
            !.drops = @ + 1,
            !.delay = BackoffNext(w.retries),
            !.retries = @ + 1]

\* the retry timer fires: tryConnect() again
WsOnRetry(w) == [w EXCEPT !.state = "connecting", !.attempts = @ + 1]

\* --------------------------------------------------------- notifyDevtools
\* ports.forEach(port => port.postMessage(text)): posts in list order; a
\* postMessage that throws (a disconnected port, or the `fail`-th port's
\* channel refusing the message) ends the loop and the exception leaves
\* notifyDevtools.  fail = 0: no channel refuses.
RECURSIVE ForEachPost(_, _, _, _, _, _)
ForEachPost(list, i, fail, text, box, done) ==
  IF i > Len(list)
  THEN [box |-> box, delivered |-> done, threw |-> None]
  ELSE IF status[list[i]] # "connected" \/ i = fail
  THEN [box |-> box, delivered |-> done, threw |-> list[i]]
  ELSE ForEachPost(list, i + 1, fail, text,
                   [box EXCEPT ![list[i]] = Append(@, text)],
                   Append(done, list[i]))

\* no notifyDevtools call has been made yet
NoEvent == [type |-> None, data |-> None, timestamp |-> 0]

\* { ...msg, timestamp: Date.now() }: one read of the clock per call
WithTimestamp(msg) == [type |-> msg.type, data |-> msg.data, timestamp |-> now]

\* notifyDevtools(msg) on the port inboxes `box`.  Both call sites pass an
\* object literal, so the typeof guard of line 48 is always passed.
NotifyDevtools(msg, fail, box) ==
  LET msgWithTimestamp == WithTimestamp(msg)
      r == ForEachPost(ports, 1, fail, Stringify(msgWithTimestamp), box, <<>>)
  IN [box   |-> r.box,
      threw |-> r.threw,
      rec   |-> [id        |-> bc.id + 1,
                 event     |-> msgWithTimestamp,
                 attached  |-> ports,
                 delivered |-> r.delivered,
                 threw     |-> r.threw]]

\* ---------------------------------------------------------- port.sender
KeyOrigin  == <<"o", "r", "i", "g", "i", "n">>
KeyTabId   == <<"t", "a", "b", "I", "d">>
KeyFavicon == <<"f", "a", "v", "i", "c", "o", "n">>
KeyUrl     == <<"u", "r", "l">>
KeyTitle   == <<"t", "i", "t", "l", "e">>

\* sender.tab is undefined
NoTab ==
  [def |-> FALSE, id |-> UndefinedId, favIconUrl |-> Undefined, url |-> Undefined,
   title |-> Undefined]

\* port.sender is undefined
NoSender == [def |-> FALSE, origin |-> Undefined, tab |-> NoTab]

PageOrigin  == <<"h", "t", "t", "p", "s", ":", "/", "/", "a", ".", "c", "o", "m">>
PageUrl     == PageOrigin \o <<"/", "p">>
PageFavicon == <<"a", "&", "b", "=", "c">>
PageTitle   == <<"a", " ", "b", "%">>

\* the sender of the ports in the runs that do not vary it: a content script
\* runs in a tab, a devtools page does not
PageSender(p) ==
  [def    |-> TRUE,
   origin |-> Str(PageOrigin),
   tab    |-> IF p \in Tabs
              THEN [def |-> TRUE, id |-> Id(IF p = "tab1" THEN 1 ELSE 2),
                    favIconUrl |-> Undefined, url |-> Undefined, title |-> Undefined]
              ELSE NoTab]

\* the tabs and senders the runs that vary the sender draw from
TabInfos ==
  {NoTab} \cup
  [def : {TRUE}, id : {UndefinedId, Id(42)},
   favIconUrl : {Undefined, Str(PageFavicon)},
   url : {Undefined, Str(PageUrl)},
   title : {Undefined, Str(PageTitle)}]

Senders ==
  {NoSender} \cup
  [def : {TRUE}, origin : {Undefined, Str(PageOrigin)}, tab : TabInfos]

\* connParams with an optional chain on the sender: never throws
ConnParamsThrowsNever(snd) == FALSE

\* connParams reads port.sender.origin without an optional chain: a
\* TypeError when port.sender is undefined
ConnParamsThrows(snd) == ~snd.def

\* the object connParams builds, as its entries in insertion order;
\* tab?.x is undefined when the tab is
ConnParams(snd) ==
  LET tab == snd.tab
  IN << <<KeyOrigin, snd.origin>>,
        <<KeyTabId, IF tab.def /\ tab.id.def THEN Str(ToString10(tab.id.num))
                    ELSE Undefined>>,
        <<KeyFavicon, IF tab.def THEN tab.favIconUrl ELSE Undefined>>,
        <<KeyUrl, IF tab.def THEN tab.url ELSE Undefined>>,
        <<KeyTitle, IF tab.def THEN tab.title ELSE Undefined>> >>

\* encodeUrlParams(p): drop the undefined values, then
\* entries.map(kv => kv.map(encodeURIComponent).join("=")).join("&")
EncodeUrlParams(params) ==
  LET filtered == SelectSeq(params, LAMBDA kv : kv[2].def)
  IN Join([i \in 1..Len(filtered) |->
             EncodeURIComponent(filtered[i][1]) \o <<"=">>
               \o EncodeURIComponent(filtered[i][2].str)],
          <<"&">>)

\* ------------------------------------------------------------------- Init
DefaultSettings == [endpoint |-> <<"w", "s", ":", "/", "/", "d">>]
LoadedSettings  == [endpoint |-> <<"w", "s", "s", ":", "/", "/", "x">>]

\* the environment's budget of events: so many of each kind, no fewer in all
Budget(s, r, d) == [send |-> s, recv |-> r, drops |-> d, total |-> s + r + d]

\* the environment still has an event of this kind to produce
Left(kind) ==
  /\ count[kind] < limit[kind]
  /\ count.send + count.recv + count.drops < limit.total

\* the state after the module is evaluated, for the pages `pop` that open a
\* port during the run and the environment's budget `lim` of events
InitState(pop, lim) ==
  /\ settings = DefaultSettings
  /\ listening = FALSE
  /\ status = [p \in Ports |-> IF p \in pop THEN "new" ELSE "absent"]
  /\ ports = <<>>
  /\ ws = [p \in Ports |-> NoWs]
  /\ sent = [p \in Ports |-> <<>>]
  /\ wire = [p \in Ports |-> <<>>]
  /\ count = [send |-> 0, recv |-> 0, drops |-> 0]
  /\ limit = lim
  /\ inbox = [p \in Ports |-> <<>>]
  /\ now = 0
  /\ bc = [id |-> 0, event |-> NoEvent, attached |-> <<>>, delivered |-> <<>>,
           threw |-> None]
  /\ thrown = {}
  /\ err = None
  /\ flushed = [p \in Ports |-> 0]
  /\ joinedAt = [p \in Ports |-> 0]
  /\ upIn = [p \in Ports |-> <<>>]
  /\ lastFlush = [p \in Ports |-> <<>>]

\* the same, with every port's sender as the runtime normally fills it
InitFor(pop, lim) ==
  /\ InitState(pop, lim)
  /\ sender = [p \in Ports |-> PageSender(p)]

\* one content script and two devtools pages
Init ==
  InitFor({"tab1", "dev1", "dev2"}, Budget(MaxSend, MaxRecv, MaxDrops))

\* one content script and one devtools page
ObserverInit ==
  InitFor({"tab1", "dev1"}, Budget(MaxSend, MaxRecv, MaxDrops))

\* one content script alone, with a longer run of its session
RelayInit ==
  InitFor({"tab1"}, Budget(RelayMaxSend, RelayMaxRecv, RelayMaxDrops))

\* one content script alone, with a longer run of its upstream's answers
ReplyInit ==
  InitFor({"tab1"}, Budget(ReplyMaxSend, ReplyMaxRecv, ReplyMaxDrops))

\* two content scripts
SessionsInit ==
  InitFor({"tab1", "tab2"},
          [Budget(MaxSend, MaxRecv, MaxDrops) EXCEPT !.total = SessionsMaxEvents])

\* one content script and two devtools pages, with little traffic
ListInit ==
  InitFor({"tab1", "dev1", "dev2"},
          [Budget(MaxSend, MaxRecv, MaxDrops) EXCEPT !.total = ListMaxEvents])

\* one content script whose port carries any of the senders
SenderInit ==
  /\ InitState({"tab1"}, Budget(MaxSend, MaxRecv, MaxDrops))
  /\ \E snd \in Senders :
       sender = [p \in Ports |-> IF p = "tab1" THEN snd ELSE PageSender(p)]

\* ---------------------------------------------------------------- actions
\* init(): settings = await loadSettings(); then both onConnect listeners
LoadSettings ==
  /\ ~listening
  /\ settings' = LoadedSettings
  /\ listening' = TRUE
  /\ err' = None
  /\ UNCHANGED <<status, ports, ws, sent, wire, count, limit, inbox, now, bc, thrown,
                 flushed, joinedAt, sender, upIn, lastFlush>>

\* listeners registered when the module is evaluated, ahead of the await
AcceptingFromStart == TRUE

\* the onConnect listeners exist once init() has passed its await
Accepting == listening

\* endpoint(port): `${settings.endpoint}?${connParams(port)}`
Endpoint(p) == settings.endpoint \o <<"?">> \o EncodeUrlParams(ConnParams(sender[p]))

\* a listener without the name test: ports.push(port) for every port
DevtoolsAttachAny(list, p) == Append(list, p)

\* devtools listener: if (port.name !== "devtools") return; ports.push(port)
DevtoolsAttach(list, p) == IF PortName(p) # "devtools" THEN list ELSE Append(list, p)

\* a page opens a runtime port before the listeners exist: no listener runs,
\* and with no receiving end the runtime closes the port
ConnectMissed(p) ==
  /\ ~Accepting
  /\ status[p] = "new"
  /\ status' = [status EXCEPT ![p] = "disconnected"]
  /\ err' = None
  /\ UNCHANGED <<settings, listening, ports, ws, sent, wire, count, limit, inbox, now,
                 bc, thrown, flushed, joinedAt, sender, upIn, lastFlush>>

\* a page opens a runtime port: both onConnect listeners run, in the order
\* they were added: setupProviderConnection(port), then the devtools one.
\* setupProviderConnection evaluates endpoint(port) first: when connParams
\* throws, no Websocket is built and no port.onMessage listener is added.
Connect(p) ==
  /\ Accepting
  /\ status[p] = "new"
  /\ status' = [status EXCEPT ![p] = "connected"]
  /\ IF ConnParamsThrows(sender[p])
     THEN /\ ws' = ws
          /\ err' = "connParams"
     ELSE /\ ws' = [ws EXCEPT ![p] = WsBuild(Endpoint(p))]
          /\ err' = None
  /\ ports' = DevtoolsAttach(ports, p)
  /\ joinedAt' = [joinedAt EXCEPT ![p] = bc.id]
  /\ UNCHANGED <<settings, listening, sent, wire, count, limit, inbox, now, bc, thrown,
                 flushed, sender, upIn, lastFlush>>

\* a disconnect listener that splices one place too far: ports.splice(i + 1, 1)
DevtoolsDetachOffByOne(list, p) ==
  LET i == IndexOf(list, p) IN IF i # 0 THEN Splice(list, i + 1) ELSE list

\* port.onDisconnect listener of a devtools port:
\* const i = ports.indexOf(port); if (i !== -1) ports.splice(i, 1)
DevtoolsDetach(list, p) ==
  LET i == IndexOf(list, p) IN IF i # 0 THEN Splice(list, i) ELSE list

\* the port is closed by its page.  setupProviderConnection registers no
\* onDisconnect listener, so the port's Websocket is left as it is.
Disconnect(p) ==
  /\ status[p] = "connected"
  /\ status' = [status EXCEPT ![p] = "disconnected"]
  /\ ports' = IF PortName(p) = "devtools" THEN DevtoolsDetach(ports, p) ELSE ports
  /\ err' = None
  /\ UNCHANGED <<settings, listening, ws, sent, wire, count, limit, inbox, now, bc,
                 thrown, flushed, joinedAt, sender, upIn, lastFlush>>

\* port.onMessage listener (it exists once the port's Websocket is built):
\* ws.send(JSON.stringify(data)), then notifyDevtools({type: "request", data})
PortMessage(p, fail) ==
  /\ status[p] = "connected"
  /\ ws[p].state # "none"
  /\ Left("send")
  /\ LET data == Request(count.send + 1)
         s == WsSend(ws[p], Stringify(data))
         n == NotifyDevtools([type |-> "request", data |-> data], fail, inbox)
     IN /\ ws' = [ws EXCEPT ![p] = s.w]
        /\ wire' = [wire EXCEPT ![p] = @ \o s.tx]
        /\ sent' = [sent EXCEPT ![p] = Append(@, data)]
        /\ inbox' = n.box
        /\ bc' = n.rec
        /\ thrown' = IF n.threw = None THEN thrown ELSE thrown \cup {n.threw}
        /\ err' = IF n.threw = None THEN None ELSE "notifyDevtools"
  /\ count' = [count EXCEPT !.send = @ + 1]
  /\ UNCHANGED <<settings, listening, status, ports, limit, now, flushed, joinedAt,
                 sender, upIn, lastFlush>>

\* one module-level port shared by every session's listener
SessionPortShared(p) == "tab1"

\* the `port` the listeners of setupProviderConnection(port) close over
SessionPort(p) == p

\* port.postMessage(data) on a connected port
Deliver(box, p, data) == [box EXCEPT ![p] = Append(@, data)]

\* a listener that mirrors first: notifyDevtools(..), then port.postMessage(data)
OnMessageMirrorFirst(p, text, fail) ==
  IF ~Parseable(text)
  THEN [box |-> inbox, rec |-> bc, threw |-> None, err |-> "JSON.parse"]
  ELSE LET port == SessionPort(p)
           data == Parse(text)
           n == NotifyDevtools([type |-> "response", data |-> data], fail, inbox)
       IN IF n.threw # None
          THEN [box |-> n.box, rec |-> n.rec, threw |-> n.threw,
                err |-> "notifyDevtools"]
          ELSE IF status[port] # "connected"
          THEN [box |-> n.box, rec |-> n.rec, threw |-> None,
                err |-> "port.postMessage"]
          ELSE [box |-> Deliver(n.box, port, data), rec |-> n.rec, threw |-> None,
                err |-> None]

\* Websocket onMessage listener of p's session: data = JSON.parse(event.data);
\* port.postMessage(data); notifyDevtools({type: "response", data}).
\* Each call can throw, and the exception ends the listener there.
\* Result: the inboxes, the record of the notifyDevtools call, the devtools
\* port that threw, and how the listener ended.
OnMessage(p, text, fail) ==
  IF ~Parseable(text)
  THEN [box |-> inbox, rec |-> bc, threw |-> None, err |-> "JSON.parse"]
  ELSE LET port == SessionPort(p)
           data == Parse(text)
       IN IF status[port] # "connected"
          THEN [box |-> inbox, rec |-> bc, threw |-> None, err |-> "port.postMessage"]
          ELSE LET n == NotifyDevtools([type |-> "response", data |-> data], fail,
                                       Deliver(inbox, port, data))
               IN [box |-> n.box, rec |-> n.rec, threw |-> n.threw,
                   err |-> IF n.threw = None THEN None ELSE "notifyDevtools"]

\* a message event of p's Websocket
WsMessage(p, text, fail) ==
  /\ ws[p].state = "open"
  /\ Left("recv")
  /\ text \in UpTexts(count.recv + 1)
  /\ count' = [count EXCEPT !.recv = @ + 1]
  /\ upIn' = [upIn EXCEPT ![p] = Append(@, text)]
  /\ LET r == OnMessage(p, text, fail)
     IN /\ inbox' = r.box
        /\ bc' = r.rec
        /\ thrown' = IF r.threw = None THEN thrown ELSE thrown \cup {r.threw}
        /\ err' = r.err
  /\ UNCHANGED <<settings, listening, status, ports, ws, sent, wire, limit, now,
                 flushed, joinedAt, sender, lastFlush>>

\* the underlying socket of p's Websocket opens
WsOpen(p) ==
  /\ ws[p].state = "connecting"
  /\ LET o == WsOnOpen(ws[p])
     IN /\ ws' = [ws EXCEPT ![p] = o.w]
        /\ wire' = [wire EXCEPT ![p] = @ \o o.tx]
        /\ flushed' = [flushed EXCEPT ![p] = @ + Len(o.tx)]
        /\ lastFlush' = [lastFlush EXCEPT ![p] = o.tx]
  /\ err' = None
  /\ UNCHANGED <<settings, listening, status, ports, sent, count, limit, inbox, now,
                 bc, thrown, joinedAt, sender, upIn>>

\* the underlying socket closes (refused, or dropped while open)
WsClose(p) ==
  /\ ws[p].state \in {"connecting", "open"}
  /\ Left("drops")
  /\ ws' = [ws EXCEPT ![p] = WsOnClose(ws[p])]
  /\ count' = [count EXCEPT !.drops = @ + 1]
  /\ err' = None
  /\ UNCHANGED <<settings, listening, status, ports, sent, wire, limit, inbox, now,
                 bc, thrown, flushed, joinedAt, sender, upIn, lastFlush>>

\* the retry timer of p's Websocket fires
RetryFire(p) ==
  /\ ws[p].state = "retrying"
  /\ ws' = [ws EXCEPT ![p] = WsOnRetry(ws[p])]
  /\ err' = None
  /\ UNCHANGED <<settings, listening, status, ports, sent, wire, count, limit, inbox,
                 now, bc, thrown, flushed, joinedAt, sender, upIn, lastFlush>>

\* the wall clock advances
Tick ==
  /\ now < MaxTime
  /\ now' = now + 1
  /\ UNCHANGED <<settings, listening, status, ports, ws, sent, wire, count, limit,
                 inbox, bc, thrown, err, flushed, joinedAt, sender, upIn, lastFlush>>

\* The runs follow the traffic of the content scripts' sessions: a devtools
\* page only listens on its port, and the socket built for a devtools port
\* is left in its first connection attempt.
Next ==
  \/ LoadSettings
  \/ \E p \in Ports : ConnectMissed(p)
  \/ \E p \in Ports : Connect(p)
  \/ \E p \in Ports : Disconnect(p)
  \/ \E p \in Tabs, fail \in 0..Len(ports) : PortMessage(p, fail)
  \/ \E p \in Tabs, fail \in 0..Len(ports) :
       \E t \in UpTexts(count.recv + 1) : WsMessage(p, t, fail)
  \/ \E p \in Tabs : WsOpen(p)
  \/ \E p \in Tabs : WsClose(p)
  \/ \E p \in Tabs : RetryFire(p)
  \/ Tick

Spec == Init /\ [][Next]_vars

ObserverSpec == ObserverInit /\ [][Next]_vars

RelaySpec == RelayInit /\ [][Next]_vars

ReplySpec == ReplyInit /\ [][Next]_vars

SessionsSpec == SessionsInit /\ [][Next]_vars

ListSpec == ListInit /\ [][Next]_vars

SenderSpec == SenderInit /\ [][Next]_vars

\* setTimeout runs the scheduled retry: a pending retry timer eventually fires
FairRelaySpec == RelaySpec /\ \A p \in Ports : WF_vars(RetryFire(p))

\* ----------------------------------------------------------------- claims
\* the texts JSON.stringify makes of a sequence of values
StringifyAll(vs) == [i \in 1..Len(vs) |-> Stringify(vs[i])]

\* the notifyDevtools texts among what a port was posted, as <<type, data>>
Events(box) ==
  LET ev == SelectSeq(box, LAMBDA m : Parseable(m))
  IN [i \in 1..Len(ev) |-> <<Parse(ev[i]).type, Parse(ev[i]).data>>]

\* the text the last notifyDevtools call posted
LastText == Stringify(bc.event)

\* C1: no upstream connection attempt is started for a port before the first
\* message is sent on that port; a port that never sends a message never
\* causes a connection attempt.
LazyConnect == \A p \in Ports : ws[p].attempts > 0 => Len(sent[p]) > 0

\* C2: the texts the upstream has been handed, followed by the texts still
\* buffered, are exactly the messages sent on the port, each once and in the
\* order sent; nothing is handed over before the socket first opens, and
\* whenever the socket is open nothing is left in the buffer.
BufferedFlushInOrder ==
  \A p \in Ports :
    /\ wire[p] \o ws[p].buffer = StringifyAll(sent[p])
    /\ ws[p].state = "open" => ws[p].buffer = <<>> /\ wire[p] = StringifyAll(sent[p])
    /\ ~ws[p].opened => wire[p] = <<>>

\* C2 witness: two messages were sent before the socket opened and the open
\* event flushed both.
BufferedFlushReached ==
  \E p \in Tabs :
    /\ ws[p].state = "open"
    /\ flushed[p] >= 2
    /\ wire[p] = <<Stringify(Request(1)), Stringify(Request(2))>>

\* C3: an open or retrying upstream socket belongs to a port that is still
\* connected: after the port's disconnect event its socket is closed, its
\* retry timer cancelled and no further attempt made.
UpstreamNeverOutlivesClient ==
  \A p \in Ports : ws[p].state \in {"open", "retrying"} => status[p] = "connected"

\* C4: after N close events a session has made N+1 connection attempts once
\* the pending retry has run (N while it is pending), every retry is scheduled
\* with the same delay of 1000 ms, and every close event is eventually
\* followed by the next attempt.
ReconnectAfterEveryDrop ==
  /\ [](\A p \in Ports :
          /\ ws[p].state \in {"connecting", "open"} => ws[p].attempts = ws[p].drops + 1
          /\ ws[p].state = "retrying" => ws[p].attempts = ws[p].drops
          /\ ws[p].drops > 0 => ws[p].delay = BackoffMs)
  /\ \A p \in Tabs : \A n \in 1..(RelayMaxDrops + 1) :
       (ws[p].drops = n) ~> (ws[p].attempts = n + 1)

\* C4 witness: a connected port that has sent a message saw two close events
\* in a row, without an open between them, and made its third attempt.
ReconnectReached ==
  \E p \in Tabs :
    /\ status[p] = "connected"
    /\ Len(sent[p]) > 0
    /\ ~ws[p].opened
    /\ ws[p].drops = 2
    /\ ws[p].attempts = 3

\* C5: every devtools port in the list when notifyDevtools is called is posted
\* the one text that call stamped (same timestamp, type and data).  The port
\* whose own postMessage threw is left out of the statement.
BroadcastSameStampToAll ==
  bc.id > 0 =>
    \A o \in Range(bc.attached) : o # bc.threw => LastText \in Range(inbox[o])

\* C6: a postMessage that throws for one devtools port is swallowed: the
\* listener that called notifyDevtools ends normally, the other ports of the
\* list are still posted the event, and the failing port stays in the list.
ObserverFailureSwallowed ==
  bc.threw # None =>
    /\ err # "notifyDevtools"
    /\ \A o \in Range(bc.attached) \ {bc.threw} : o \in Range(bc.delivered)
    /\ bc.threw \in Range(bc.attached)

\* C7: a notifyDevtools call iterates connected ports only: a devtools port
\* that has disconnected is posted nothing from then on, is not in the list
\* the call iterates, and so cannot make the call throw.
NoDeliveryAfterDetach ==
  [][bc'.id # bc.id =>
       /\ \A o \in Range(bc'.attached) : status[o] = "connected"
       /\ Range(bc'.delivered) \subseteq Range(bc'.attached)
       /\ \A o \in Ports : status[o] = "disconnected" => inbox'[o] = inbox[o]]_vars

\* C7 witness: a devtools port received an event, disconnected, and a later
\* notifyDevtools call was made without it.
DetachedBeforeBroadcastReached ==
  \E o \in Devs :
    /\ status[o] = "disconnected"
    /\ Events(inbox[o]) # <<>>
    /\ bc.id > Len(Events(inbox[o]))
    /\ o \notin Range(bc.attached)

\* C8: each devtools port that is in the list for the whole notifyDevtools
\* call is posted the event exactly once, never skipped and never twice.
\* The port whose own postMessage threw is left out of the statement.
EachAttachedObserverOnce ==
  bc.id > 0 =>
    \A o \in Range(bc.attached) :
      o # bc.threw => Cardinality({i \in 1..Len(bc.delivered) : bc.delivered[i] = o}) = 1

\* C9: a step that changes the list of devtools ports (an attach or a detach)
\* builds no Websocket, starts no connection attempt and leaves every
\* session's socket, buffer and history as they were.
ObserverAttachLeavesRelayAlone ==
  [][ports' # ports => UNCHANGED <<ws, sent, wire, flushed>>]_vars

\* C10: when a content script has sent one message and its upstream has
\* then answered with one (the answer is the last message mirrored), the
\* script's port was posted exactly that answer, and a
\* devtools port that has been in the list since before the message, whose
\* own postMessage never threw, was posted the request event and then the
\* response event.
ExchangeMirroredInOrder ==
  \A c \in Tabs : \A o \in Range(ports) :
    ( /\ count.send = 1
      /\ count.recv = 1
      /\ sent[c] = <<Request(1)>>
      /\ inbox[c] = <<Response(1)>>
      /\ bc.event.type = "response"
      /\ joinedAt[o] = 0
      /\ o \notin thrown )
    => Events(inbox[o]) = << <<"request", Request(1)>>, <<"response", Response(1)>> >>

\* C11: a devtools port is posted the event of a notifyDevtools call if and
\* only if it is in the list when the call is made: the call appends the
\* stamped text to the inbox of every port of the list and leaves every other
\* port's inbox as it was, so a port attached later holds no earlier event.
\* The port whose own postMessage threw is left out of the statement.
ReceivesIffAttached ==
  [][bc'.id # bc.id =>
       \A o \in Devs \ {bc'.threw} :
         IF o \in Range(ports)
         THEN inbox'[o] = Append(inbox[o], Stringify(bc'.event))
         ELSE inbox'[o] = inbox[o]]_vars

\* the values JSON.parse makes of the parseable texts among message events
Parsed(texts) ==
  LET ok == SelectSeq(texts, LAMBDA t : Parseable(t))
  IN [i \in 1..Len(ok) |-> Parse(ok[i])]

\* C12: sessions are isolated.  What a content script's port is posted came
\* from its own socket and from no other; what a socket was handed or holds
\* in its buffer was sent on its own port and on no other; and a step that
\* changes one session's socket, buffer or history leaves every other
\* session's socket, buffer, history and port inbox as they were.
SessionsIsolated ==
  /\ [](\A p \in Tabs :
          /\ Range(inbox[p]) \subseteq Range(Parsed(upIn[p]))
          /\ Range(wire[p] \o ws[p].buffer) \subseteq Range(StringifyAll(sent[p]))
          /\ \A q \in Tabs \ {p} :
               /\ Range(inbox[p]) \cap Range(Parsed(upIn[q])) = {}
               /\ Range(wire[p] \o ws[p].buffer) \cap Range(StringifyAll(sent[q])) = {})
  /\ [][\A p \in Tabs : \A q \in Tabs \ {p} :
          <<ws[p], sent[p], wire[p], upIn[p], inbox[p]>>'
             # <<ws[p], sent[p], wire[p], upIn[p], inbox[p]>>
          => <<ws[q], sent[q], wire[q], upIn[q], inbox[q]>>'
               = <<ws[q], sent[q], wire[q], upIn[q], inbox[q]>>]_vars

\* C12 witness: two sessions are open at once; one content script's message
\* went to its own socket and the other's upstream answer to its own port.
TwoSessionsActedReached ==
  /\ ws["tab1"].state = "open"
  /\ ws["tab2"].state = "open"
  /\ wire["tab1"] = <<Stringify(Request(1))>>
  /\ wire["tab2"] = <<>>
  /\ inbox["tab2"] = <<Response(1)>>
  /\ inbox["tab1"] = <<>>

\* the pieces of s between the occurrences of the character c
RECURSIVE SplitOn(_, _)
SplitOn(s, c) ==
  IF \E i \in 1..Len(s) : s[i] = c
  THEN LET i == CHOOSE k \in 1..Len(s) : s[k] = c /\ \A j \in 1..(k - 1) : s[j] # c
       IN <<SubSeq(s, 1, i - 1)>> \o SplitOn(SubSeq(s, i + 1, Len(s)), c)
  ELSE <<s>>

\* the string a percent-encoded string stands for
RECURSIVE PercentDecode(_)
PercentDecode(s) ==
  IF s = <<>> THEN <<>>
  ELSE IF Len(s) >= 3 /\ \E c \in DOMAIN Escape : Escape[c] = SubSeq(s, 1, 3)
  THEN <<CHOOSE c \in DOMAIN Escape : Escape[c] = SubSeq(s, 1, 3)>>
         \o PercentDecode(SubSeq(s, 4, Len(s)))
  ELSE <<Head(s)>> \o PercentDecode(Tail(s))

\* a query string read back as a server reads it: split at "&", each piece
\* split at "=", both halves decoded
ReadQuery(q) ==
  IF q = <<>> THEN <<>>
  ELSE LET pieces == SplitOn(q, "&")
       IN [i \in 1..Len(pieces) |->
             [j \in 1..Len(SplitOn(pieces[i], "=")) |->
                PercentDecode(SplitOn(pieces[i], "=")[j])]]

\* wss://x?origin=https%3A%2F%2Fa.com&url=https%3A%2F%2Fa.com%2Fp
ExampleUrl ==
  <<"w", "s", "s", ":", "/", "/", "x", "?", "o", "r", "i", "g", "i", "n", "=",
    "h", "t", "t", "p", "s", "%", "3", "A", "%", "2", "F", "%", "2", "F",
    "a", ".", "c", "o", "m", "&", "u", "r", "l", "=",
    "h", "t", "t", "p", "s", "%", "3", "A", "%", "2", "F", "%", "2", "F",
    "a", ".", "c", "o", "m", "%", "2", "F", "p">>

\* origin and url present, everything else absent
ExampleSender ==
  [def |-> TRUE, origin |-> Str(PageOrigin),
   tab |-> [def |-> TRUE, id |-> UndefinedId, favIconUrl |-> Undefined,
            url |-> Str(PageUrl), title |-> Undefined]]

\* C13: the URL a Websocket is built with (and keeps) is the endpoint, "?", and a query
\* string that reads back as exactly the entries of the metadata whose value
\* is defined, in the order origin, tabId, favicon, url, title, with the keys
\* and values they had before encoding; an undefined entry leaves no trace.
\* Base wss://x with origin https://a.com, url https://a.com/p and nothing
\* else gives wss://x?origin=https%3A%2F%2Fa.com&url=https%3A%2F%2Fa.com%2Fp.
QueryIsPresentEntries ==
  [][\A p \in Ports :
       /\ ws[p].state # "none" => ws'[p].url = ws[p].url
       /\ ws[p].state = "none" /\ ws'[p].state # "none" =>
            LET parts   == SplitOn(ws'[p].url, "?")
                entries == ConnParams(sender[p])
                present == SelectSeq(entries, LAMBDA kv : kv[2].def)
            IN /\ Len(parts) = 2
               /\ parts[1] = settings.endpoint
               /\ ReadQuery(parts[2]) = [i \in 1..Len(present) |->
                                            <<present[i][1], present[i][2].str>>]
               /\ sender[p] = ExampleSender => ws'[p].url = ExampleUrl]_vars

\* C13 witness: a port whose sender has an origin, a favicon holding "&" and
\* "=", a title holding a space and "%", and no tab id or url, has its
\* Websocket built.
EncodedQueryReached ==
  \E p \in Tabs :
    /\ ws[p].state # "none"
    /\ sender[p].origin.def
    /\ sender[p].tab.def
    /\ ~sender[p].tab.id.def
    /\ ~sender[p].tab.url.def
    /\ sender[p].tab.favIconUrl = Str(PageFavicon)
    /\ sender[p].tab.title = Str(PageTitle)

\* C14: a send on an open socket puts the text on the wire at once and a
\* send on any other socket adds it to the tail of the buffer; an open event
\* puts the whole buffer on the wire, head first, before anything sent later;
\* no other event (a close, a retry, a message from upstream) moves or drops
\* a text.  So across any sequence of opens and drops the wire followed by
\* the buffer is what was sent, each text once and in the order sent.
SendNowOrQueue ==
  /\ [](\A p \in Tabs : wire[p] \o ws[p].buffer = StringifyAll(sent[p]))
  /\ [][\A p \in Tabs :
          IF sent'[p] # sent[p]
          THEN LET text == Stringify(sent'[p][Len(sent'[p])])
               IN IF ws[p].state = "open"
                  THEN /\ wire'[p] = Append(wire[p], text)
                       /\ ws'[p].buffer = <<>>
                  ELSE /\ wire'[p] = wire[p]
                       /\ ws'[p].buffer = Append(ws[p].buffer, text)
          ELSE IF ws[p].state # "open" /\ ws'[p].state = "open"
          THEN /\ wire'[p] = wire[p] \o ws[p].buffer
               /\ ws'[p].buffer = <<>>
          ELSE /\ wire'[p] = wire[p]
               /\ ws'[p].buffer = ws[p].buffer]_vars

\* C14 witness: the first message went out on the open socket, the socket
\* dropped, the second message was sent while it was down, and the open
\* event of the reconnect sent it.
QueuedAcrossDropReached ==
  \E p \in Tabs :
    /\ ws[p].state = "open"
    /\ ws[p].drops >= 1
    /\ flushed[p] = 1
    /\ lastFlush[p] = <<Stringify(Request(2))>>
    /\ wire[p] = <<Stringify(Request(1)), Stringify(Request(2))>>

\* C15: what a content script's port has been posted is exactly the values
\* of the well-formed messages its session's socket received, each once and
\* in the order they arrived.
RepliesDeliveredOnceInOrder ==
  \A p \in Tabs : inbox[p] = Parsed(upIn[p])

\* C16: a message event whose text JSON.parse rejects changes nothing: no
\* port is posted anything, no notifyDevtools call is made, and every
\* session's socket, buffer and history, the port states and the devtools
\* list stay as they were.  The session goes on afterwards: a later
\* well-formed message is posted to its connected port, and a later message
\* of its port is handed to its socket.
MalformedDropped ==
  [][\A p \in Tabs :
       /\ upIn'[p] # upIn[p] /\ upIn'[p][Len(upIn'[p])] = Malformed
            => UNCHANGED <<inbox, bc, ws, wire, sent, status, ports, thrown>>
       /\ Malformed \in Range(upIn[p]) =>
            /\ upIn'[p] # upIn[p] /\ upIn'[p][Len(upIn'[p])] # Malformed
                 /\ status[p] = "connected"
                 => inbox'[p] = Append(inbox[p], upIn'[p][Len(upIn'[p])].json)
            /\ sent'[p] # sent[p]
                 => wire'[p] \o ws'[p].buffer
                      = Append(wire[p] \o ws[p].buffer,
                               Stringify(sent'[p][Len(sent'[p])]))]_vars

\* C16 witness: a session received a malformed message and then a well-formed
\* one, which was posted to its port, and the port's own message reached the
\* socket.
ForwardedAfterMalformedReached ==
  \E p \in Tabs :
    /\ Len(upIn[p]) = 2
    /\ upIn[p][1] = Malformed
    /\ inbox[p] = <<Response(2)>>
    /\ wire[p] = <<Stringify(Request(1))>>
    /\ err = None

\* C17: when a port without sender connects, setupProviderConnection fails
\* in connParams before anything is built: the port gets no Websocket, no
\* notifyDevtools call is made and no port is posted anything in that step,
\* and afterwards the port never has a socket, a sent message or a received
\* one.
NoSenderNoSession ==
  /\ [](\A p \in Ports :
          sender[p] = NoSender => ws[p] = NoWs /\ sent[p] = <<>> /\ upIn[p] = <<>>)
  /\ [][\A p \in Ports :
          sender[p] = NoSender /\ status[p] = "new" /\ status'[p] = "connected"
          => /\ err' = "connParams"
             /\ UNCHANGED <<ws, sent, wire, upIn, inbox, bc, count>>]_vars

\* C17 witness: the listeners were called with a port that has no sender and
\* setupProviderConnection threw.
NoSenderConnectReached ==
  \E p \in Tabs :
    /\ sender[p] = NoSender
    /\ status[p] = "connected"
    /\ err = "connParams"

\* C18: settings change once only, from the default to the loaded value, in
\* the step that registers the listeners; a port that connects before that
\* step is not handled (no Websocket, not added to the devtools list); every
\* Websocket and every entry of the devtools list was made after it; and
\* every Websocket's URL starts with the loaded endpoint followed by "?".
SettingsLoadedFirst ==
  /\ [](\A p \in Ports :
          /\ ws[p].state # "none" \/ p \in Range(ports)
               => listening /\ settings = LoadedSettings
          /\ ws[p].state # "none"
               => SubSeq(ws[p].url, 1, Len(LoadedSettings.endpoint) + 1)
                    = LoadedSettings.endpoint \o <<"?">>)
  /\ [][/\ settings' # settings
             => /\ ~listening /\ listening'
                /\ settings = DefaultSettings /\ settings' = LoadedSettings
        /\ listening => listening'
        /\ \A p \in Ports :
             ~listening /\ status'[p] # status[p]
             => status'[p] = "disconnected" /\ UNCHANGED <<ws, ports>>]_vars

\* C18 witness: a devtools page connected before the settings were loaded and
\* was not handled; a content script connected afterwards and has a socket.
EarlyPortMissedReached ==
  /\ status["dev1"] = "disconnected"
  /\ ws["dev1"] = NoWs
  /\ status["tab1"] = "connected"
  /\ ws["tab1"].state # "none"

\* C19: a notifyDevtools call with a request is made in the step that hands
\* the same message to the port's Websocket (on the wire or in its buffer); a
\* call with a response is made in the step that posts the same value to the
\* connected port of the session; and a message event whose port cannot be
\* posted to makes no notifyDevtools call and posts nothing to any port.
ForwardBeforeMirror ==
  [][/\ bc'.id # bc.id /\ bc'.event.type = "request"
          => \E p \in Tabs :
               /\ sent'[p] = Append(sent[p], bc'.event.data)
               /\ wire'[p] \o ws'[p].buffer
                    = Append(wire[p] \o ws[p].buffer, Stringify(bc'.event.data))
     /\ bc'.id # bc.id /\ bc'.event.type = "response"
          => \E p \in Tabs :
               /\ status[p] = "connected"
               /\ upIn'[p] = Append(upIn[p], Stringify(bc'.event.data))
               /\ inbox'[p] = Append(inbox[p], bc'.event.data)
     /\ \A p \in Tabs :
          upIn'[p] # upIn[p] /\ status[p] # "connected"
          => bc' = bc /\ inbox' = inbox]_vars

\* C19 witness: with a devtools port in the list, a well-formed message
\* arrived for a session whose port had gone; posting it failed and the
\* devtools port holds no response event.
PostFailedNoMirrorReached ==
  \E p \in Tabs : \E o \in Range(ports) :
    /\ status[p] = "disconnected"
    /\ upIn[p] = <<Stringify(Response(1))>>
    /\ err = "port.postMessage"
    /\ \A i \in 1..Len(Events(inbox[o])) : Events(inbox[o])[i][1] # "response"

\* the elements of a list other than x, in their order
Without(list, x) == SelectSeq(list, LAMBDA y : y # x)

\* C20: the devtools list holds each connected devtools port exactly once
\* and nothing else; the disconnect of a devtools port takes that port out
\* and leaves the others in their order; the disconnect listener of a port
\* that is not in the list would leave the list as it is; and any step that
\* changes no devtools port's state leaves the list as it was.
ObserverListExact ==
  /\ [](/\ Range(ports) = {o \in Devs : status[o] = "connected"}
        /\ Cardinality(Range(ports)) = Len(ports)
        /\ \A o \in Devs : o \notin Range(ports) => DevtoolsDetach(ports, o) = ports)
  /\ [][/\ \A o \in Devs :
             status[o] = "connected" /\ status'[o] = "disconnected"
             => ports' = Without(ports, o)
        /\ (\A o \in Devs : status'[o] = status[o]) => ports' = ports]_vars

\* C20 witness: a notifyDevtools call found two devtools ports in the list,
\* then the first of them disconnected; the list holds the second alone.
FirstOfTwoDetachedReached ==
  /\ bc.attached = <<"dev1", "dev2">>
  /\ status["dev1"] = "disconnected"
  /\ ports = <<"dev2">>

====
